---- MODULE Spec2Model ----
(***************************************************************************)
(* Model of limesurveyrc2api/_token.py: the _Token wrapper around the      *)
(* remote-control API of a survey platform.  Each of the five operations   *)
(* builds an ordered parameter list, issues one blocking api.query call    *)
(* and then inspects the value the transport handed back.                  *)
(*                                                                         *)
(* Python values are tagged records [t |-> type name, v |-> payload]:      *)
(* a str carries its text, an int its number, a dict the sequence of its   *)
(* <<key, value>> items in insertion order, a list the sequence of its     *)
(* elements.  "A mapping" is a value of type dict, "a sequence" a value of *)
(* type list, as the JSON decoding of the transport produces them.         *)
(***************************************************************************)
EXTENDS Integers, Sequences, FiniteSets, TLC

VARIABLES
    api,      \* the session context the caller injected: session key + handle
    pc,       \* position of the (single-threaded) caller's current invocation
    call,     \* the operation invoked and the arguments as written by the caller
    sent,     \* what the transport received: method name and ordered params
    result,   \* what the transport produced: a returned value or a raised one
    outcome,  \* what the caller observes of the invocation
    queries,  \* number of api.query calls issued by the current invocation
    steps     \* the statements of the operation executed so far

vars == <<api, pc, call, sent, result, outcome, queries, steps>>

(*************************** bounds ***************************************)
MaxSurveyId == 2
MaxTokenId == 2

(*************************** Python values ********************************)
PyNone == [t |-> "NoneType", v |-> 0]
PyInt(n) == [t |-> "int", v |-> n]
PyBool(b) == [t |-> "bool", v |-> b]
PyStr(s) == [t |-> "str", v |-> s]
PyList(elems) == [t |-> "list", v |-> elems]
PyDict(items) == [t |-> "dict", v |-> items]
PyExc(name, msg) == [t |-> name, v |-> msg]

\* an optional argument the caller did not write
Absent == [t |-> "absent", v |-> 0]

\* the value an optional parameter takes: the default when omitted
Default(arg, dflt) == IF arg.t = "absent" THEN dflt ELSE arg

\* type(x)
type(x) == x.t

\* a == b for the values used here (same type, same payload)
PyEq(a, b) == a.t = b.t /\ a.v = b.v

\* k in x, for a dict (membership among the keys) or a list (among the elements)
In(k, x) ==
    IF x.t = "dict"
    THEN \E i \in DOMAIN x.v : x.v[i][1] = k
    ELSE \E i \in DOMAIN x.v : PyEq(x.v[i], PyStr(k))

\* d[k] for a dict that has the key
GetItem(d, k) == d.v[CHOOSE i \in DOMAIN d.v : d.v[i][1] = k][2]

\* truth value of x
Truthy(x) ==
    CASE x.t = "NoneType" -> FALSE
      [] x.t = "bool" -> x.v
      [] x.t = "int" -> x.v # 0
      [] x.t = "str" -> x.v # ""
      [] x.t \in {"list", "dict"} -> Len(x.v) > 0
      [] OTHER -> TRUE

\* a or b
Or(a, b) == IF Truthy(a) THEN a ELSE b

\* OrderedDict([...]): the items in the order written
OrderedDict(items) == items

(*************************** outcomes *************************************)
Pending == [kind |-> "pending", args |-> <<>>]
Return(value) == [kind |-> "return", args |-> <<value>>]
LimeSurveyError(method, status) ==
    [kind |-> "LimeSurveyError", args |-> <<PyStr(method), status>>]
AssertionError == [kind |-> "AssertionError", args |-> <<>>]

\* a failure of api.query leaves the operation through no handler
PropagateTranslated(exc) == LimeSurveyError("query", exc)
Propagate(exc) == [kind |-> "propagated", args |-> <<exc>>]

(*************************** the error lists ******************************)
add_error_messages ==
    <<"Error: Invalid survey ID", "No token table", "No permission">>

delete_error_messages ==
    <<"Error: Invalid survey ID", "Error: No token table", "No permission",
      "Invalid Session Key">>

properties_error_messages ==
    <<"Error: Invalid survey ID", "Error: No token table",
      "Error: Invalid tokenid", "No permission", "Invalid Session Key">>

\* for message in error_messages: if status == message: raise
MatchesCaseless(status, error_messages) ==
    \E i \in DOMAIN error_messages :
        \/ PyEq(status, PyStr(error_messages[i]))
        \/ /\ error_messages[i] = "No permission"
           /\ PyEq(status, PyStr("no permission"))
Matches(status, error_messages) ==
    \E i \in DOMAIN error_messages : PyEq(status, PyStr(error_messages[i]))

(*************************** response handling ****************************)
\* get_summary, after the query returned
get_summary_listed(response) ==
    IF /\ type(response) = "dict"
       /\ In("status", response)
       /\ Matches(GetItem(response, "status"), delete_error_messages)
    THEN LimeSurveyError("get_summary", GetItem(response, "status"))
    ELSE Return(response)
get_summary_check(response) ==
    IF type(response) = "dict" /\ In("status", response)
    THEN LimeSurveyError("get_summary", GetItem(response, "status"))
    ELSE Return(response)

\* list_participants, after the query returned
list_participants_check(response) ==
    IF type(response) = "dict" /\ In("status", response)
    THEN LimeSurveyError("list_participants", GetItem(response, "status"))
    ELSE Return(response)

\* add_participants, after the query returned
add_participants_assert_first(response) ==
    LET response_type == type(response) IN
    IF response_type # "list" THEN AssertionError ELSE Return(response)
add_participants_assert_dict(response) ==
    LET response_type == type(response) IN
    IF /\ response_type = "dict"
       /\ In("status", response)
       /\ Matches(GetItem(response, "status"), add_error_messages)
    THEN LimeSurveyError("add_participants", GetItem(response, "status"))
    ELSE IF response_type = "dict" THEN Return(response) ELSE AssertionError
add_participants_check(response) ==
    LET response_type == type(response) IN
    IF /\ response_type = "dict"
       /\ In("status", response)
       /\ Matches(GetItem(response, "status"), add_error_messages)
    THEN LimeSurveyError("add_participants", GetItem(response, "status"))
    ELSE IF response_type = "list" THEN Return(response) ELSE AssertionError

\* delete_participants, after the query returned
delete_participants_unasserted(response) ==
    LET response_type == type(response) IN
    IF /\ response_type = "dict"
       /\ In("status", response)
       /\ Matches(GetItem(response, "status"), delete_error_messages)
    THEN LimeSurveyError("delete_participants", GetItem(response, "status"))
    ELSE Return(response)
delete_participants_check(response) ==
    LET response_type == type(response) IN
    IF /\ response_type = "dict"
       /\ In("status", response)
       /\ Matches(GetItem(response, "status"), delete_error_messages)
    THEN LimeSurveyError("delete_participants", GetItem(response, "status"))
    ELSE IF response_type = "dict" THEN Return(response) ELSE AssertionError

\* get_participant_properties, after the query returned
get_participant_properties_check(response) ==
    LET response_type == type(response) IN
    IF /\ response_type = "dict"
       /\ In("status", response)
       /\ Matches(GetItem(response, "status"), properties_error_messages)
    THEN LimeSurveyError("get_participant_properties",
                         GetItem(response, "status"))
    ELSE IF response_type = "dict" THEN Return(response) ELSE AssertionError

(*************************** inputs ***************************************)
SessionKeys == {PyStr("key-a"), PyStr("key-b")}

\* the key of the session the caller opened before building the wrapper
InitialSessionKey == PyStr("key-a")

SurveyIds == {PyInt(n) : n \in 1..MaxSurveyId}

TokenIds == {PyInt(n) : n \in 1..MaxTokenId}

\* the token lists [1], [1, 2], ... and the empty one
TokenLists == {PyList([i \in 1..n |-> PyInt(i)]) : n \in 0..MaxTokenId}

ParticipantRecord == PyDict(<< <<"email", PyStr("t1@test.com")>> >>)

StartArgs == {Absent, PyInt(5)}
LimitArgs == {Absent, PyInt(10)}
UnusedArgs == {Absent, PyBool(TRUE)}
AttributeArgs == {Absent, PyList(<<PyStr("email")>>)}
ConditionArgs == {Absent, PyNone, PyList(<<>>), PyList(<<ParticipantRecord>>)}
ParticipantData == {PyList(<<>>), PyList(<<ParticipantRecord>>)}
CreateTokenArgs == {Absent, PyBool(FALSE)}

\* every status string some operation lists, plus unlisted ones
StatusStrings ==
    {add_error_messages[i] : i \in DOMAIN add_error_messages}
    \cup {delete_error_messages[i] : i \in DOMAIN delete_error_messages}
    \cup {properties_error_messages[i] : i \in DOMAIN properties_error_messages}
    \cup {"no permission", "OK"}

StatusValues == {PyStr(s) : s \in StatusStrings} \cup {PyNone}

StatusDicts ==
    {PyDict(<< <<"status", s>> >>) : s \in StatusValues}
    \cup {PyDict(<< <<"1", PyStr("Deleted")>>, <<"status", s>> >>) :
            s \in StatusValues}

PlainDicts ==
    { PyDict(<<>>),
      PyDict(<< <<"token_count", PyStr("5")>> >>),
      PyDict(<< <<"1", PyStr("Deleted")>>, <<"2", PyStr("Invalid")>> >>) }

Lists ==
    { PyList(<<>>),
      PyList(<<ParticipantRecord>>),
      PyList(<<PyStr("status")>>),
      PyList(<<PyDict(<< <<"status", PyStr("No permission")>> >>)>>) }

Primitives == {PyNone, PyStr("status"), PyBool(TRUE), PyInt(0)}

\* what the JSON-RPC transport can hand back
Responses == StatusDicts \cup PlainDicts \cup Lists \cup Primitives

\* what the transport can raise
TransportFailures ==
    { PyExc("ConnectionError", "network"),
      PyExc("HTTPError", "401"),
      PyExc("ValueError", "not JSON") }

NoCall == [method |-> "", args |-> <<>>]
NoResult == [raised |-> FALSE, value |-> PyNone]

(*************************** state machine ********************************)
\* _Token(api): the wrapper keeps the caller's session context
Init ==
    /\ api = [session_key |-> InitialSessionKey, transport |-> "rpc"]
    /\ pc = "idle"
    /\ call = NoCall
    /\ sent = NoCall
    /\ result = NoResult
    /\ outcome = Pending
    /\ queries = 0
    /\ steps = <<>>

\* the session key read from the context for the first parameter
sSessionKeyStale(a) == InitialSessionKey
sSessionKey(a) == a.session_key

\* self.api.query(method=method, params=params): the blocking call starts
Query(method, params) ==
    /\ sent' = [method |-> method, args |-> params]
    /\ queries' = queries + 1
    /\ steps' = Append(steps, "query")
    /\ pc' = "query"
    /\ UNCHANGED <<api, result, outcome>>

get_summary(survey_id) ==
    /\ pc = "idle"
    /\ call' = [method |-> "get_summary", args |-> <<survey_id>>]
    /\ Query("get_summary",
             OrderedDict(<< <<"sSessionKey", sSessionKey(api)>>,
                            <<"iSurveyID", survey_id>> >>))

\* conditions = conditions or []
conditions_or_emptyRaw(conditions) == conditions
conditions_or_empty(conditions) == Or(conditions, PyList(<<>>))

list_participants(survey_id, start_arg, limit_arg, unused_arg, attributes_arg, conditions_arg) ==
    LET start == Default(start_arg, PyInt(0))
        limit == Default(limit_arg, PyInt(1000))
        ignore_token_used == Default(unused_arg, PyBool(FALSE))
        attributes == Default(attributes_arg, PyBool(FALSE))
        conditions0 == Default(conditions_arg, PyNone)
        conditions == conditions_or_empty(conditions0)
    IN
    /\ pc = "idle"
    /\ call' = [method |-> "list_participants",
                args |-> <<survey_id, start_arg, limit_arg, unused_arg,
                           attributes_arg, conditions_arg>>]
    /\ Query("list_participants",
             OrderedDict(<< <<"sSessionKey", sSessionKey(api)>>,
                            <<"iSurveyID", survey_id>>,
                            <<"iStart", start>>,
                            <<"iLimit", limit>>,
                            <<"bUnused", ignore_token_used>>,
                            <<"aAttributes", attributes>>,
                            <<"aConditions", conditions>> >>))

add_participants(survey_id, participant_data, create_arg) ==
    LET create_token_key == Default(create_arg, PyBool(TRUE)) IN
    /\ pc = "idle"
    /\ call' = [method |-> "add_participants",
                args |-> <<survey_id, participant_data, create_arg>>]
    /\ Query("add_participants",
             OrderedDict(<< <<"sSessionKey", sSessionKey(api)>>,
                            <<"iSurveyID", survey_id>>,
                            <<"aParticipantData", participant_data>>,
                            <<"bCreateToken", create_token_key>> >>))

delete_participants(survey_id, tokens) ==
    /\ pc = "idle"
    /\ call' = [method |-> "delete_participants",
                args |-> <<survey_id, tokens>>]
    /\ Query("delete_participants",
             OrderedDict(<< <<"sSessionKey", sSessionKey(api)>>,
                            <<"iSurveyID", survey_id>>,
                            <<"aTokenIDs", tokens>> >>))

get_participant_properties(survey_id, token_id) ==
    /\ pc = "idle"
    /\ call' = [method |-> "get_participant_properties",
                args |-> <<survey_id, token_id>>]
    /\ Query("get_participant_properties",
             OrderedDict(<< <<"sSessionKey", sSessionKey(api)>>,
                            <<"iSurveyID", survey_id>>,
                            <<"aTokenQueryProperties",
                              PyDict(<< <<"tid", token_id>> >>)>> >>))

\* the transport answers the call in flight with a value ...
query_returns(response) ==
    /\ pc = "query"
    /\ result' = [raised |-> FALSE, value |-> response]
    /\ pc' = "returned"
    /\ UNCHANGED <<api, call, sent, outcome, queries, steps>>

\* ... or fails
query_raises(exc) ==
    /\ pc = "query"
    /\ result' = [raised |-> TRUE, value |-> exc]
    /\ pc' = "raised"
    /\ UNCHANGED <<api, call, sent, outcome, queries, steps>>

\* the exception leaves the operation: no statement after the call runs
unwind ==
    /\ pc = "raised"
    /\ outcome' = Propagate(result.value)
    /\ pc' = "done"
    /\ UNCHANGED <<api, call, sent, result, queries, steps>>

\* the statements after the call, up to the return / raise / failed assert
Finish(method, out) ==
    /\ pc = "returned"
    /\ call.method = method
    /\ outcome' = out
    /\ steps' = Append(steps, "inspect")
    /\ pc' = "done"
    /\ UNCHANGED <<api, call, sent, result, queries>>

\* a variant that asks the transport again when it sees a status
get_summary_finish_retry ==
    /\ pc = "returned"
    /\ call.method = "get_summary"
    /\ IF get_summary_check(result.value).kind = "LimeSurveyError" /\ queries < 2
       THEN /\ queries' = queries + 1
            /\ steps' = steps \o <<"inspect", "query">>
            /\ pc' = "query"
            /\ UNCHANGED <<api, call, sent, result, outcome>>
       ELSE Finish("get_summary", get_summary_check(result.value))
get_summary_finish ==
    Finish("get_summary", get_summary_check(result.value))

list_participants_finish ==
    Finish("list_participants", list_participants_check(result.value))

add_participants_finish ==
    Finish("add_participants", add_participants_check(result.value))

delete_participants_finish ==
    Finish("delete_participants", delete_participants_check(result.value))

get_participant_properties_finish ==
    Finish("get_participant_properties",
           get_participant_properties_check(result.value))

\* the caller has the outcome and is free to invoke the next operation
caller_continues ==
    /\ pc = "done"
    /\ pc' = "idle"
    /\ call' = NoCall
    /\ sent' = NoCall
    /\ result' = NoResult
    /\ outcome' = Pending
    /\ queries' = 0
    /\ steps' = <<>>
    /\ UNCHANGED api

\* the caller, who owns the session context, opens another session
caller_sets_session_key(key) ==
    /\ pc = "idle"
    /\ key # api.session_key
    /\ api' = [api EXCEPT !.session_key = key]
    /\ UNCHANGED <<pc, call, sent, result, outcome, queries, steps>>

Next ==
    \/ \E s \in SurveyIds : get_summary(s)
    \/ \E s \in SurveyIds, a \in StartArgs, l \in LimitArgs, u \in UnusedArgs,
          t \in AttributeArgs, c \in ConditionArgs :
            list_participants(s, a, l, u, t, c)
    \/ \E s \in SurveyIds, d \in ParticipantData, c \in CreateTokenArgs :
            add_participants(s, d, c)
    \/ \E s \in SurveyIds, t \in TokenLists : delete_participants(s, t)
    \/ \E s \in SurveyIds, t \in TokenIds : get_participant_properties(s, t)
    \/ \E r \in Responses : query_returns(r)
    \/ \E e \in TransportFailures : query_raises(e)
    \/ unwind
    \/ get_summary_finish
    \/ list_participants_finish
    \/ add_participants_finish
    \/ delete_participants_finish
    \/ get_participant_properties_finish
    \/ caller_continues
    \/ \E k \in SessionKeys : caller_sets_session_key(k)

Spec == Init /\ [][Next]_vars

TypeOK ==
    /\ pc \in {"idle", "query", "returned", "raised", "done"}
    /\ queries \in 0..2
    /\ api.session_key \in SessionKeys

(*************************** properties ***********************************)
\* the invocation is over and the transport had returned a value
Answered == pc = "done" /\ ~result.raised

\* the transport's value is a mapping that has a "status" key
StatusBearing(r) == r.t = "dict" /\ \E i \in DOMAIN r.v : r.v[i][1] = "status"

\* the value under "status" of a status-bearing mapping
StatusOf(r) == r.v[CHOOSE i \in DOMAIN r.v : r.v[i][1] = "status"][2]

\* the error strings each operation lists
ListedErrors(m) ==
    CASE m = "add_participants" ->
            {"Error: Invalid survey ID", "No token table", "No permission"}
      [] m = "delete_participants" ->
            {"Error: Invalid survey ID", "Error: No token table",
             "No permission", "Invalid Session Key"}
      [] m = "get_participant_properties" ->
            {"Error: Invalid survey ID", "Error: No token table",
             "No permission", "Invalid Session Key", "Error: Invalid tokenid"}
      [] OTHER -> {}

\* the success shape each operation expects
ExpectedShape(m) ==
    IF m \in {"add_participants", "list_participants"} THEN "list" ELSE "dict"

ListingOperations ==
    {"add_participants", "delete_participants", "get_participant_properties"}

\* C1: in add_participants, delete_participants and
\* get_participant_properties, a returned mapping whose "status" is one of
\* the operation's listed error strings makes the call fail with the domain
\* error carrying the method name and that status, not with the assertion
\* and not with a return.
C1_ListedStatusRaises ==
    \A m \in ListingOperations :
        ( /\ Answered
          /\ call.method = m
          /\ StatusBearing(result.value)
          /\ \E e \in ListedErrors(m) : StatusOf(result.value) = PyStr(e) )
        => outcome = [kind |-> "LimeSurveyError",
                      args |-> <<PyStr(m), StatusOf(result.value)>>]

C1_Witness ==
    /\ Answered
    /\ call.method = "add_participants"
    /\ result.value = PyDict(<< <<"status", PyStr("No token table")>> >>)
    /\ outcome.kind = "LimeSurveyError"

\* C2: in get_summary and list_participants, a returned mapping that has a
\* "status" key, whatever its value, makes the call fail with the domain
\* error carrying the method name and that status value.
C2_AnyStatusRaises ==
    \A m \in {"get_summary", "list_participants"} :
        (Answered /\ call.method = m /\ StatusBearing(result.value))
        => outcome = [kind |-> "LimeSurveyError",
                      args |-> <<PyStr(m), StatusOf(result.value)>>]

C2_Witness ==
    /\ Answered
    /\ call.method = "get_summary"
    /\ StatusBearing(result.value)
    /\ StatusOf(result.value) = PyStr("OK")
    /\ outcome.kind = "LimeSurveyError"

\* C3: a returned payload of the operation's expected shape that has no
\* "status" key is returned exactly as it is, with no error.
C3_PassThrough ==
    ( /\ Answered
      /\ result.value.t = ExpectedShape(call.method)
      /\ ~StatusBearing(result.value) )
    => outcome = [kind |-> "return", args |-> <<result.value>>]

C3_Witness ==
    /\ Answered
    /\ call.method = "add_participants"
    /\ result.value = PyList(<<ParticipantRecord>>)
    /\ outcome.kind = "return"

\* C4: every invocation issues exactly one transport call, whatever the
\* outcome; the call comes before the outcome and is never repeated.
C4_OneQuery ==
    /\ pc = "idle" => queries = 0
    /\ pc # "idle" => queries = 1
    /\ outcome.kind # "pending" =>
          /\ queries = 1
          /\ steps # <<>>
          /\ steps[1] = "query"
          /\ \A i \in 2..Len(steps) : steps[i] # "query"

C4_Witness ==
    /\ pc = "done"
    /\ call.method = "get_summary"
    /\ outcome.kind = "LimeSurveyError"
    /\ queries = 1

\* a status the operation treats as an error
Recognized(m, r) ==
    /\ StatusBearing(r)
    /\ \/ m \in {"get_summary", "list_participants"}
       \/ \E e \in ListedErrors(m) : StatusOf(r) = PyStr(e)

\* C5 as stated: in all five operations a response that is not of the
\* expected shape and has no recognized error status aborts with the
\* shape assertion.
C5_AllFiveAssert ==
    ( /\ Answered
      /\ result.value.t # ExpectedShape(call.method)
      /\ ~Recognized(call.method, result.value) )
    => outcome.kind = "AssertionError"

\* C5 amended: add_participants, delete_participants and
\* get_participant_properties abort with the shape assertion on such a
\* response; get_summary and list_participants assert nothing and return
\* it unchanged.
C5_ThreeAssertTwoReturn ==
    ( /\ Answered
      /\ result.value.t # ExpectedShape(call.method)
      /\ ~Recognized(call.method, result.value) )
    => IF call.method \in ListingOperations
       THEN outcome = [kind |-> "AssertionError", args |-> <<>>]
       ELSE outcome = [kind |-> "return", args |-> <<result.value>>]

C5_Witness ==
    /\ Answered
    /\ call.method = "delete_participants"
    /\ result.value.t = "list"
    /\ outcome.kind = "AssertionError"

\* C6: the value an operation returns is never a mapping that has a
\* "status" key.
C6_NoEnvelopeReturned ==
    outcome.kind = "return" => ~StatusBearing(outcome.args[1])

\* C7: list_participants called with only survey_id sends the method name
\* and session key, survey id, start 0, limit 1000, ignore_used false,
\* attributes false and conditions [] in that order.
C7_DefaultParams ==
    ( /\ pc # "idle"
      /\ call.method = "list_participants"
      /\ \A i \in 2..6 : call.args[i].t = "absent" )
    => sent = [method |-> "list_participants",
               args |-> << <<"sSessionKey", api.session_key>>,
                           <<"iSurveyID", call.args[1]>>,
                           <<"iStart", PyInt(0)>>,
                           <<"iLimit", PyInt(1000)>>,
                           <<"bUnused", PyBool(FALSE)>>,
                           <<"aAttributes", PyBool(FALSE)>>,
                           <<"aConditions", PyList(<<>>)>> >>]

C7_Witness ==
    /\ pc = "query"
    /\ call.method = "list_participants"
    /\ \A i \in 2..6 : call.args[i].t = "absent"
    /\ Len(sent.args) = 7

\* C8: no step of an invocation changes the session context, and the
\* first parameter of each call is the session key the context holds when
\* the call is made.
C8_SessionReadOnly ==
    [][ /\ (pc # "idle" \/ pc' # "idle") => api' = api
        /\ (pc = "idle" /\ pc' = "query") =>
              sent'.args[1] = <<"sSessionKey", api.session_key>> ]_vars

C8_Witness ==
    /\ pc = "done"
    /\ api.session_key = PyStr("key-b")
    /\ sent.args[1] = <<"sSessionKey", PyStr("key-b")>>

\* C9: a failure raised by the transport call reaches the caller as that
\* same failure, untranslated, and nothing of the operation runs after the
\* call.
C9_FailurePropagates ==
    (pc = "done" /\ result.raised)
    => /\ outcome = [kind |-> "propagated", args |-> <<result.value>>]
       /\ steps = <<"query">>

C9_Witness ==
    /\ pc = "done"
    /\ result.raised
    /\ call.method = "add_participants"
    /\ outcome.kind = "propagated"

\* C10: in add_participants a returned mapping whose "status" is not
\* exactly one of its own three strings aborts with the shape assertion:
\* no domain error, no return.
C10_AddUnlistedStatusAsserts ==
    ( /\ Answered
      /\ call.method = "add_participants"
      /\ StatusBearing(result.value)
      /\ StatusOf(result.value) \notin
            { PyStr("Error: Invalid survey ID"), PyStr("No token table"),
              PyStr("No permission") } )
    => outcome = [kind |-> "AssertionError", args |-> <<>>]

C10_Witness ==
    /\ Answered
    /\ call.method = "add_participants"
    /\ StatusBearing(result.value)
    /\ StatusOf(result.value) = PyStr("no permission")
    /\ outcome.kind = "AssertionError"

====
